---- MODULE Spec2Model ----
(***************************************************************************)
(* Model of the dadaC python binding (src/dadaC.py): the Data object, its  *)
(* stage flags, result caches and the calls it makes into the engine       *)
(* library (libdadac.so).  The engine is outside the binding; its point    *)
(* and cluster structures are modelled by what the binding asks the engine *)
(* to write into them.                                                     *)
(***************************************************************************)
EXTENDS Integers, Sequences, FiniteSets, TLC

VARIABLES
    lib,          \* value returned by lib.FloatAndUintSize() (fixed by the .so)
    ctFloatType,  \* module global ctFloatType, as a bit width
    ctIdxType,    \* module global ctIdxType, as a bit width
    phase,        \* "module" (imported), "live", "rejected" (__init__ raised), "dead"
    self,         \* the attributes of the Data object
    pts,          \* engine side: point structures returned by NgbhSearch
    cls,          \* engine side: cluster structures returned by Heuristic1
    op,           \* the call made by the last step, with its arguments
    ret,          \* its outcome: returned value or raised error
    calls,        \* the engine calls the last step made, in order
    hist          \* which stages have ever succeeded (history)

vars == <<lib, ctFloatType, ctIdxType, phase, self, pts, cls, op, ret, calls, hist>>

----------------------------------------------------------------------------
(* Bounds of the model *)

MaxAllocs == 3      \* structures the engine hands out in one behaviour:
                    \* successful NgbhSearch calls plus successful Heuristic1 calls

(* Program constants *)

SparseThreshold == 2000000   \* `self.n > 2e6`
FloatWide == 64              \* ct.c_double
FloatNarrow == 32            \* ct.c_float
IdxWide == 64                \* ct.c_uint64
IdxNarrow == 32              \* ct.c_uint32

(* Inputs.  The parameters are varied one at a time around a default, the   *)
(* code handling each of them independently of the others: the engine build *)
(* and the array size with default call arguments, the call arguments on    *)
(* the default build and array.                                             *)

LibSizes == {0, 2, 3}
NSet == {3, SparseThreshold, SparseThreshold + 1}
DefaultBuild(s) == s = 3
DefaultSize(n) == n = 3
ShapesOf(ns) == {<<n>> : n \in ns} \cup {<<n, 2>> : n \in ns} \cup {<<n, 2, 2>> : n \in ns}
Shapes(s) == IF DefaultBuild(s) THEN ShapesOf(NSet) ELSE ShapesOf({n \in NSet : DefaultSize(n)})
KSet == {0, 1, 3}
KArgs(s, n) == IF DefaultBuild(s) /\ DefaultSize(n) THEN KSet ELSE {1}
ZSet == {-1, 0, 1}
SparseArgs == {"auto", "yes", "y", "no"}
ClusteringArgs(s, n) ==
    {<<1, TRUE, "auto">>}
    \cup (IF DefaultBuild(s)
            THEN {<<1, TRUE, us>> : us \in SparseArgs}
            ELSE {})
    \cup (IF DefaultBuild(s) /\ DefaultSize(n)
            THEN {<<Z, TRUE, "auto">> : Z \in ZSet}
                 \cup {<<1, halo, "auto">> : halo \in BOOLEAN}
            ELSE {})

(* Python's None is the empty sequence, a value v is <<v>> *)
None == <<>>
Some(v) == <<v>>
IsNone(x) == x = <<>>
Val(x) == x[1]

----------------------------------------------------------------------------
(* Outcomes and the call log *)

Ok == [kind |-> "ok", err |-> "", val |-> <<>>]
Return(v) == [kind |-> "ok", err |-> "", val |-> v]
Raise(e) == [kind |-> "raise", err |-> e, val |-> <<>>]

Call(fn, p, c, a) == [fn |-> fn, pt |-> p, cl |-> c, arg |-> a]
OpRec(name, k, Z, halo, us) == [name |-> name, k |-> k, Z |-> Z, halo |-> halo, useSparse |-> us]
OpPlain(name) == OpRec(name, 0, 0, FALSE, "")

NoHist == [ngbh |-> FALSE, id |-> FALSE, density |-> FALSE, clustering |-> FALSE]

----------------------------------------------------------------------------
(* The record layouts (HeapNode, Heap, DatapointInfo, Border_t, ...) are    *)
(* class bodies evaluated at import, with the module globals as they are    *)
(* then: c_double and c_uint64.                                             *)

LayoutFloat == FloatWide
LayoutIdx == IdxWide

(* self.__useFloat32 = s < 1 ; self.__useInt32 = (s == 0) or (s == 2) *)
UseFloat32(s) == s < 1
UseInt32(s) == (s = 0) \/ (s = 2)

(* The object before __init__ has run: no attribute is set. *)
Blank ==
    [ state |-> [ngbh |-> FALSE, id |-> FALSE, density |-> FALSE, clustering |-> FALSE,
                 useFloat32 |-> FALSE, useInt32 |-> FALSE,
                 useSparse |-> None, computeHalo |-> None],
      stateSet |-> FALSE,       \* self.state assigned
      dataWidth |-> 0,          \* dtype of self.data
      ndim |-> 0,               \* len(self.data.shape)
      argFloat |-> 0,           \* ndpointer(ctFloatType) in NgbhSearch / Heuristic1 argtypes
      argIdx |-> 0,             \* ctIdxType in computeCorrection argtypes
      attrsSet |-> FALSE,       \* attributes of lines 158-169 assigned
      datapoints |-> None, clusters |-> None,
      n |-> 0, dims |-> 0, k |-> None, id |-> None, Z |-> None,
      clusterAssignment |-> None, neighbors |-> None, borders |-> None,
      density |-> None, densityError |-> None ]

Init ==
    /\ lib \in LibSizes
    /\ ctFloatType = FloatWide
    /\ ctIdxType = IdxWide
    /\ phase = "module"
    /\ self = Blank
    /\ pts = <<>>
    /\ cls = <<>>
    /\ op = OpPlain("import")
    /\ ret = Ok
    /\ calls = <<>>
    /\ hist = NoHist

----------------------------------------------------------------------------
(* Data.__init__ *)

NewFloatType(s, old) == IF UseFloat32(s) THEN FloatNarrow ELSE old
NewIdxType(s, old) == IF UseInt32(s) THEN IdxNarrow ELSE old

InitHead(shape) ==
    [ Blank EXCEPT
        !.state.useFloat32 = UseFloat32(lib),
        !.state.useInt32 = UseInt32(lib),
        !.stateSet = TRUE,
        !.dataWidth = IF UseFloat32(lib) THEN FloatNarrow ELSE FloatWide,
        !.ndim = Len(shape),
        !.argFloat = NewFloatType(lib, ctFloatType),
        !.argIdx = NewIdxType(lib, ctIdxType) ]

InitTail(s, shape) ==
    [ s EXCEPT !.attrsSet = TRUE, !.n = shape[1], !.dims = shape[2] ]

Construct(shape) ==
    /\ phase = "module"
    /\ ctFloatType' = NewFloatType(lib, ctFloatType)
    /\ ctIdxType' = NewIdxType(lib, ctIdxType)
    /\ op' = OpPlain("__init__")
    /\ calls' = <<Call("FloatAndUintSize", 0, 0, 0)>>
    /\ IF Len(shape) # 2
         THEN /\ self' = InitHead(shape)
              /\ phase' = "rejected"
              /\ ret' = Raise("TypeError")
         ELSE /\ self' = InitTail(InitHead(shape), shape)
              /\ phase' = "live"
              /\ ret' = Ok
    /\ UNCHANGED <<lib, pts, cls, hist>>

----------------------------------------------------------------------------
(* Data.computeNeighbors *)

(* A point structure as the engine holds it: which dimension estimate its      *)
(* density fields were computed with (0: computeRho never ran on it), which    *)
(* clustering wrote its cluster_idx fields (0: none did), how often it was     *)
(* passed to freeDatapointArray.                                               *)
NewPoints == [rho |-> 0, labels |-> 0, freed |-> 0]

(* Faulty variant: a new neighbor search also clears the id flag, and only it. *)
computeNeighborsClearsId(k) ==
    /\ phase = "live"
    /\ Len(pts) + Len(cls) < MaxAllocs
    /\ pts' = Append(pts, NewPoints)
    /\ self' = [self EXCEPT !.k = Some(k),
                            !.datapoints = Some(Len(pts) + 1),
                            !.state.ngbh = TRUE,
                            !.state.id = FALSE,
                            !.neighbors = None]
    /\ op' = OpRec("computeNeighbors", k, 0, FALSE, "")
    /\ ret' = Ok
    /\ calls' = <<Call("NgbhSearch", Len(pts) + 1, 0, k)>>
    /\ hist' = [hist EXCEPT !.ngbh = TRUE]
    /\ UNCHANGED <<lib, ctFloatType, ctIdxType, phase, cls>>

computeNeighbors(k) ==
    /\ phase = "live"
    /\ Len(pts) + Len(cls) < MaxAllocs
    /\ pts' = Append(pts, NewPoints)
    /\ self' = [self EXCEPT !.k = Some(k),
                            !.datapoints = Some(Len(pts) + 1),
                            !.state.ngbh = TRUE,
                            !.neighbors = None]
    /\ op' = OpRec("computeNeighbors", k, 0, FALSE, "")
    /\ ret' = Ok
    /\ calls' = <<Call("NgbhSearch", Len(pts) + 1, 0, k)>>
    /\ hist' = [hist EXCEPT !.ngbh = TRUE]
    /\ UNCHANGED <<lib, ctFloatType, ctIdxType, phase, cls>>

----------------------------------------------------------------------------
(* Data.computeIDtwoNN *)

Held(s) == Val(s.datapoints)

NgbhComputed(s) == s.state.ngbh

(* The value idEstimate returns is named by the structure it was computed on. *)
computeIDtwoNN ==
    /\ phase = "live"
    /\ op' = OpPlain("computeIDtwoNN")
    /\ IF ~NgbhComputed(self)
         THEN /\ ret' = Raise("ValueError")
              /\ calls' = <<>>
              /\ UNCHANGED <<self, hist>>
         ELSE /\ self' = [self EXCEPT !.id = Some(Held(self)), !.state.id = TRUE]
              /\ ret' = Ok
              /\ calls' = <<Call("idEstimate", Held(self), 0, self.n)>>
              /\ hist' = [hist EXCEPT !.id = TRUE]
    /\ UNCHANGED <<lib, ctFloatType, ctIdxType, phase, pts, cls>>

----------------------------------------------------------------------------
(* Data.computeDensity *)

IdComputed(s) == s.state.id

DensityCacheReset(s) == [s EXCEPT !.density = None, !.densityError = None]

(* computeRho writes log_rho, log_rho_err and kstar of the structure it is    *)
(* given, from its neighbor lists and the id passed.                          *)
computeDensity ==
    /\ phase = "live"
    /\ op' = OpPlain("computeDensity")
    /\ IF ~IdComputed(self)
         THEN /\ ret' = Raise("ValueError")
              /\ calls' = <<>>
              /\ UNCHANGED <<self, pts, hist>>
         ELSE /\ pts' = [pts EXCEPT ![Held(self)].rho = Val(self.id)]
              /\ self' = DensityCacheReset([self EXCEPT !.state.density = TRUE])
              /\ ret' = Ok
              /\ calls' = <<Call("computeRho", Held(self), 0, Val(self.id))>>
              /\ hist' = [hist EXCEPT !.density = TRUE]
    /\ UNCHANGED <<lib, ctFloatType, ctIdxType, phase, cls>>

----------------------------------------------------------------------------
(* Data.computeClusteringADP *)

(* Faulty variant: the clustering guard tests the wrong stage flag. *)
DensityComputedWrongFlag(s) == s.state.id

DensityComputed(s) == s.state.density

SparseFlag(useSparse, n) ==
    IF useSparse = "auto" THEN n > SparseThreshold
    ELSE IF useSparse = "y" THEN TRUE
    ELSE FALSE

ClusteringSettings(s, Z, halo, useSparse) ==
    [s EXCEPT !.state.useSparse = Some(SparseFlag(useSparse, s.n)),
              !.state.computeHalo = Some(halo),
              !.Z = Some(Z)]

(* Faulty variant: the cached assignment survives a new clustering. *)
ClusteringCacheKept(s) == s

ClusteringCacheReset(s) == [s EXCEPT !.clusterAssignment = None]

Flag(b) == IF b THEN 1 ELSE 0

(* The five engine calls of lines 238-242 on point structure h; c is the      *)
(* cluster structure Heuristic1 returns.                                      *)
(* Faulty variant: the borders are built before their storage is allocated.   *)
EngineClusteringBordersFirst(h, c, n, Z, halo, sparse) ==
    << Call("computeCorrection", h, 0, Z),
       Call("Heuristic1", h, c, n),
       Call("Heuristic2", h, c, 0),
       Call("Clusters_allocate", 0, c, Flag(sparse)),
       Call("Heuristic3", h, c, Z) >>

EngineClustering(h, c, n, Z, halo, sparse) ==
    << Call("computeCorrection", h, 0, Z),
       Call("Heuristic1", h, c, n),
       Call("Clusters_allocate", 0, c, Flag(sparse)),
       Call("Heuristic2", h, c, 0),
       Call("Heuristic3", h, c, Z) >>

NewClusters(h) == [pt |-> h, freed |-> 0]

(* Faulty variant: the settings are stored before the density check. *)
computeClusteringADPLateCheck(Z, halo, useSparse) ==
    /\ phase = "live"
    /\ op' = OpRec("computeClusteringADP", 0, Z, halo, useSparse)
    /\ IF ~DensityComputed(self)
         THEN /\ ret' = Raise("ValueError")
              /\ calls' = <<>>
              /\ self' = ClusteringSettings(self, Z, halo, useSparse)
              /\ UNCHANGED <<pts, cls, hist>>
         ELSE /\ Len(pts) + Len(cls) < MaxAllocs
              /\ LET s1 == ClusteringSettings(self, Z, halo, useSparse)
                     h == Held(self)
                     c == Len(cls) + 1
                     sparse == Val(s1.state.useSparse)
                 IN /\ pts' = [pts EXCEPT ![h].labels = c]
                    /\ cls' = Append(cls, NewClusters(h))
                    /\ calls' = EngineClustering(h, c, self.n, Z, halo, sparse)
                    /\ self' = ClusteringCacheReset(
                                 [s1 EXCEPT !.clusters = Some(c), !.state.clustering = TRUE])
              /\ ret' = Ok
              /\ hist' = [hist EXCEPT !.clustering = TRUE]
    /\ UNCHANGED <<lib, ctFloatType, ctIdxType, phase>>

computeClusteringADP(Z, halo, useSparse) ==
    /\ phase = "live"
    /\ op' = OpRec("computeClusteringADP", 0, Z, halo, useSparse)
    /\ IF ~DensityComputed(self)
         THEN /\ ret' = Raise("ValueError")
              /\ calls' = <<>>
              /\ UNCHANGED <<self, pts, cls, hist>>
         ELSE /\ Len(pts) + Len(cls) < MaxAllocs
              /\ LET s1 == ClusteringSettings(self, Z, halo, useSparse)
                     h == Held(self)
                     c == Len(cls) + 1
                     sparse == Val(s1.state.useSparse)
                 IN /\ pts' = [pts EXCEPT ![h].labels = c]
                    /\ cls' = Append(cls, NewClusters(h))
                    /\ calls' = EngineClustering(h, c, self.n, Z, halo, sparse)
                    /\ self' = ClusteringCacheReset(
                                 [s1 EXCEPT !.clusters = Some(c), !.state.clustering = TRUE])
              /\ ret' = Ok
              /\ hist' = [hist EXCEPT !.clustering = TRUE]
    /\ UNCHANGED <<lib, ctFloatType, ctIdxType, phase>>

----------------------------------------------------------------------------
(* Getters.  What a getter reads from the held structure is named by what    *)
(* the engine last wrote there: the structure itself for its neighbor lists  *)
(* (of which the getter reads self.k entries), the id its density was        *)
(* computed with, the clustering that wrote its labels.                      *)

ReadLabels(s) == <<pts[Held(s)].labels>>
ReadDensity(s) == <<Held(s), pts[Held(s)].rho>>
ReadNeighbors(s) == <<Held(s), Val(s.k)>>

ClusteringReadable(s) == s.state.clustering
(* Faulty variant: getDensity tests the neighbors flag. *)
DensityReadableWrongFlag(s) == s.state.ngbh

DensityReadable(s) == s.state.density
DensityErrorReadable(s) == s.state.density
NeighborsReadable(s) == s.state.ngbh

GetterFrame == UNCHANGED <<lib, ctFloatType, ctIdxType, phase, pts, cls, hist>>

getClusterAssignment ==
    /\ phase = "live"
    /\ op' = OpPlain("getClusterAssignment")
    /\ calls' = <<>>
    /\ IF IsNone(self.clusterAssignment)
         THEN IF ClusteringReadable(self)
                THEN /\ self' = [self EXCEPT !.clusterAssignment = Some(ReadLabels(self))]
                     /\ ret' = Return(ReadLabels(self))
                ELSE /\ ret' = Raise("ValueError")
                     /\ self' = self
         ELSE /\ ret' = Return(Val(self.clusterAssignment))
              /\ self' = self
    /\ GetterFrame

(* `raise NotImplemented(...)`: NotImplemented is not callable, a TypeError *)
getBorders ==
    /\ phase = "live"
    /\ op' = OpPlain("getBorders")
    /\ calls' = <<>>
    /\ ret' = Raise("TypeError")
    /\ self' = self
    /\ GetterFrame

getDensity ==
    /\ phase = "live"
    /\ op' = OpPlain("getDensity")
    /\ calls' = <<>>
    /\ IF IsNone(self.density)
         THEN IF DensityReadable(self)
                THEN /\ self' = [self EXCEPT !.density = Some(ReadDensity(self))]
                     /\ ret' = Return(ReadDensity(self))
                ELSE /\ ret' = Raise("ValueError")
                     /\ self' = self
         ELSE /\ ret' = Return(Val(self.density))
              /\ self' = self
    /\ GetterFrame

(* Faulty variant: getDensityError stores what it read in the density slot.   *)
getDensityErrorWrongSlot ==
    /\ phase = "live"
    /\ op' = OpPlain("getDensityError")
    /\ calls' = <<>>
    /\ IF IsNone(self.densityError)
         THEN IF DensityErrorReadable(self)
                THEN /\ self' = [self EXCEPT !.density = Some(ReadDensity(self))]
                     /\ ret' = Return(ReadDensity(self))
                ELSE /\ ret' = Raise("ValueError")
                     /\ self' = self
         ELSE /\ ret' = Return(Val(self.densityError))
              /\ self' = self
    /\ GetterFrame

getDensityError ==
    /\ phase = "live"
    /\ op' = OpPlain("getDensityError")
    /\ calls' = <<>>
    /\ IF IsNone(self.densityError)
         THEN IF DensityErrorReadable(self)
                THEN /\ self' = [self EXCEPT !.densityError = Some(ReadDensity(self))]
                     /\ ret' = Return(ReadDensity(self))
                ELSE /\ ret' = Raise("ValueError")
                     /\ self' = self
         ELSE /\ ret' = Return(Val(self.densityError))
              /\ self' = self
    /\ GetterFrame

getNeighbors ==
    /\ phase = "live"
    /\ op' = OpPlain("getNeighbors")
    /\ calls' = <<>>
    /\ IF IsNone(self.neighbors)
         THEN IF NeighborsReadable(self)
                THEN /\ self' = [self EXCEPT !.neighbors = Some(ReadNeighbors(self))]
                     /\ ret' = Return(ReadNeighbors(self))
                ELSE /\ ret' = Raise("ValueError")
                     /\ self' = self
         ELSE /\ ret' = Return(Val(self.neighbors))
              /\ self' = self
    /\ GetterFrame

----------------------------------------------------------------------------
(* Data.__del__, run when the object is collected; also for an object whose  *)
(* __init__ raised.                                                          *)

FreePoints(p, s) ==
    IF IsNone(s.datapoints) THEN p
    ELSE [p EXCEPT ![Held(s)].freed = @ + 1]

FreeClusters(c, s) ==
    IF IsNone(s.clusters) THEN c
    ELSE [c EXCEPT ![Val(s.clusters)].freed = @ + 1]

FreeCalls(s) ==
    (IF IsNone(s.datapoints) THEN <<>>
     ELSE <<Call("freeDatapointArray", Held(s), 0, s.n)>>)
    \o (IF IsNone(s.clusters) THEN <<>>
        ELSE <<Call("Clusters_free", 0, Val(s.clusters), 0)>>)

Del ==
    /\ phase \in {"live", "rejected"}
    /\ op' = OpPlain("__del__")
    /\ phase' = "dead"
    /\ IF ~self.attrsSet
         THEN /\ ret' = Raise("AttributeError")
              /\ calls' = <<>>
              /\ UNCHANGED <<pts, cls>>
         ELSE /\ ret' = Ok
              /\ calls' = FreeCalls(self)
              /\ pts' = FreePoints(pts, self)
              /\ cls' = FreeClusters(cls, self)
    /\ UNCHANGED <<lib, ctFloatType, ctIdxType, self, hist>>

----------------------------------------------------------------------------
Next ==
    \/ \E shape \in Shapes(lib) : Construct(shape)
    \/ \E k \in KArgs(lib, self.n) : computeNeighbors(k)
    \/ computeIDtwoNN
    \/ computeDensity
    \/ \E a \in ClusteringArgs(lib, self.n) : computeClusteringADP(a[1], a[2], a[3])
    \/ getClusterAssignment
    \/ getBorders
    \/ getDensity
    \/ getDensityError
    \/ getNeighbors
    \/ Del

Spec == Init /\ [][Next]_vars

----------------------------------------------------------------------------
(* Properties *)

ClusteringEngineCalls == {"computeCorrection", "Heuristic1", "Heuristic2", "Heuristic3"}
ComputeOps == {"computeNeighbors", "computeIDtwoNN", "computeDensity", "computeClusteringADP"}
GetterOps == {"getClusterAssignment", "getBorders", "getDensity", "getDensityError",
              "getNeighbors"}
Failed == ret.kind = "raise"

(* C1: a stage called before its prerequisite stage has ever succeeded raises *)
(* an error and makes no engine call: computeIDtwoNN before computeNeighbors, *)
(* computeDensity before computeIDtwoNN, computeClusteringADP before          *)
(* computeDensity.                                                            *)
C1_PrerequisiteEnforced ==
    /\ (op.name = "computeIDtwoNN" /\ ~hist.ngbh) => (Failed /\ calls = <<>>)
    /\ (op.name = "computeDensity" /\ ~hist.id) => (Failed /\ calls = <<>>)
    /\ (op.name = "computeClusteringADP" /\ ~hist.density) => (Failed /\ calls = <<>>)

C1_Witness ==
    /\ op.name = "computeClusteringADP"
    /\ hist.ngbh /\ hist.id /\ ~hist.density
    /\ Failed /\ calls = <<>>

(* C2: computeCorrection and Heuristic1/2/3 are only ever called on a point  *)
(* structure on which computeRho has run; a clustering call on a held        *)
(* structure without density fails.                                          *)
C2_ClusteringOnlyOnDensity ==
    /\ \A i \in 1..Len(calls) :
          calls[i].fn \in ClusteringEngineCalls => pts[calls[i].pt].rho # 0
    /\ (op.name = "computeClusteringADP" /\ ~IsNone(self.datapoints)
          /\ pts[Held(self)].rho = 0) => Failed

(* C3: computeNeighbors(k) with k >= n or k < 1 raises, makes no neighbor    *)
(* search, and leaves the stored k and the neighbors flag as they were.      *)
InvalidK(k, n) == k >= n \/ k < 1

C3_InvalidKRejected ==
    [][ (op'.name = "computeNeighbors" /\ InvalidK(op'.k, self.n))
          => /\ ret'.kind = "raise"
             /\ calls' = <<>>
             /\ self'.k = self.k
             /\ self'.state.ngbh = self.state.ngbh ]_vars

(* C4: computeClusteringADP(Z) with Z <= 0 raises before any engine call and *)
(* leaves the clustering flag, Z, useSparse, computeHalo and the cached      *)
(* assignment as they were.                                                  *)
C4_InvalidZRejected ==
    [][ (op'.name = "computeClusteringADP" /\ op'.Z <= 0)
          => /\ ret'.kind = "raise"
             /\ calls' = <<>>
             /\ self'.state = self.state
             /\ self'.Z = self.Z
             /\ self'.clusterAssignment = self.clusterAssignment ]_vars

(* C5: after a successful clustering the border-storage flag recorded in     *)
(* state useSparse and passed to Clusters_allocate is sparse exactly when    *)
(* useSparse is 'yes', or 'auto' with n > 2,000,000, and dense for 'no', or  *)
(* 'auto' with n <= 2,000,000.                                               *)
DocumentedSparse(useSparse, n) ==
    useSparse = "yes" \/ (useSparse = "auto" /\ n > SparseThreshold)

C5_SparsePolicy ==
    (op.name = "computeClusteringADP" /\ ~Failed /\ op.useSparse \in {"auto", "yes", "no"})
      => /\ self.state.useSparse = Some(DocumentedSparse(op.useSparse, self.n))
         /\ \A i \in 1..Len(calls) :
               calls[i].fn = "Clusters_allocate"
                 => calls[i].arg = Flag(DocumentedSparse(op.useSparse, self.n))

(* C6: once density is computed every clustering call succeeds, and while    *)
(* the point structure the latest clustering ran on is still the held one    *)
(* (computeNeighbors was not re-run), getClusterAssignment returns the       *)
(* labels of the latest clustering, never those of an earlier one.           *)
C6_AssignmentOfLatestClustering ==
    /\ (op.name = "computeClusteringADP" /\ hist.density) => ~Failed
    /\ (op.name = "getClusterAssignment" /\ ~Failed /\ cls[Len(cls)].pt = Held(self))
         => ret.val = <<Len(cls)>>

C6_Witness ==
    /\ op.name = "getClusterAssignment"
    /\ Len(cls) = 2
    /\ cls[1].pt = Held(self) /\ cls[2].pt = Held(self)
    /\ ret.val = <<2>>

(* C7: a getter raises when its stage has not been computed, and whenever a  *)
(* getter returns a value the flag of its stage is true.                     *)
StageOf(name) ==
    CASE name = "getNeighbors" -> "ngbh"
      [] name = "getDensity" -> "density"
      [] name = "getDensityError" -> "density"
      [] name = "getClusterAssignment" -> "clustering"

C7_GettersNeedTheirStage ==
    op.name \in GetterOps \ {"getBorders"}
      => /\ ~hist[StageOf(op.name)] => Failed
         /\ ~Failed => self.state[StageOf(op.name)]

C7_Witness ==
    /\ op.name = "getDensity"
    /\ hist.id /\ ~hist.density
    /\ Failed

(* C8: a compute or getter call that raises leaves the object as it was:     *)
(* flags, k, id, Z, settings, handles and caches, and the engine structures. *)
C8_FailedCallChangesNothing ==
    [][ (op'.name \in ComputeOps \cup GetterOps /\ ret'.kind = "raise")
          => (self' = self /\ pts' = pts /\ cls' = cls) ]_vars

C8_Witness ==
    /\ op.name = "computeClusteringADP"
    /\ Failed
    /\ hist.id
    /\ ~IsNone(self.neighbors)

(* C9: the float and index widths of the record layouts, of the data array   *)
(* and of the argument types of the engine calls are the widths the engine   *)
(* reported at construction.                                                 *)
ReportedFloat(s) == IF s.state.useFloat32 THEN FloatNarrow ELSE FloatWide
ReportedIdx(s) == IF s.state.useInt32 THEN IdxNarrow ELSE IdxWide

C9_WidthsConsistent ==
    phase = "live"
      => /\ LayoutFloat = ReportedFloat(self)
         /\ LayoutIdx = ReportedIdx(self)
         /\ self.dataWidth = ReportedFloat(self)
         /\ self.argFloat = ReportedFloat(self)
         /\ self.argIdx = ReportedIdx(self)

(* C10: constructing Data with an array that is not 2-dimensional raises     *)
(* TypeError and changes no module-level configuration, and destroying the   *)
(* rejected object makes no engine call and reads no unset handle.           *)
C10_RejectedConstructionIsClean ==
    /\ phase = "rejected"
         => (ret.err = "TypeError" /\ ctFloatType = FloatWide /\ ctIdxType = IdxWide)
    /\ (op.name = "__del__" /\ self.ndim # 2)
         => (~Failed /\ calls = <<>> /\ ctFloatType = FloatWide /\ ctIdxType = IdxWide)

(* C11: after the object is destroyed every point structure NgbhSearch       *)
(* returned and every cluster structure Heuristic1 returned has been         *)
(* released exactly once; none is ever released twice.                       *)
C11_EveryStructureReleasedOnce ==
    /\ \A h \in 1..Len(pts) : pts[h].freed <= 1
    /\ \A c \in 1..Len(cls) : cls[c].freed <= 1
    /\ (phase = "dead" /\ self.attrsSet)
         => /\ \A h \in 1..Len(pts) : pts[h].freed = 1
            /\ \A c \in 1..Len(cls) : cls[c].freed = 1

(* C12: a successful computeClusteringADP makes exactly the engine calls     *)
(* computeCorrection, Heuristic1, Clusters_allocate, Heuristic2, Heuristic3, *)
(* in this order, all on the held point structure, with the same Z in        *)
(* computeCorrection and Heuristic3, and Heuristic2 and Heuristic3 on the    *)
(* cluster structure Heuristic1 returned; the clustering flag is true only   *)
(* once a clustering has run through Heuristic3.                             *)
ClusteringCallOrder ==
    <<"computeCorrection", "Heuristic1", "Clusters_allocate", "Heuristic2", "Heuristic3">>

C12_ClusteringCallSequence ==
    /\ (op.name = "computeClusteringADP" /\ ~Failed)
         => /\ Len(calls) = Len(ClusteringCallOrder)
            /\ \A i \in 1..Len(calls) : calls[i].fn = ClusteringCallOrder[i]
            /\ \A i \in {1, 2, 4, 5} : calls[i].pt = Held(self)
            /\ calls[1].arg = op.Z /\ calls[5].arg = calls[1].arg
            /\ calls[2].cl = Len(cls) /\ Val(self.clusters) = calls[2].cl
            /\ \A i \in {3, 4, 5} : calls[i].cl = calls[2].cl
            /\ self.state.clustering
    /\ self.state.clustering
         => (hist.clustering /\ Len(cls) >= 1 /\ ~IsNone(self.clusters))

C12_Witness ==
    /\ op.name = "computeClusteringADP"
    /\ ~Failed
    /\ Len(cls) = 2
    /\ op.Z = 0

(* C13: a getter never returns a cached result that differs from what        *)
(* reading the currently held point structure gives (so that its result does *)
(* not depend on whether a getter was called earlier).                       *)
ReadBy(name, s) ==
    CASE name = "getNeighbors" -> ReadNeighbors(s)
      [] name = "getDensity" -> ReadDensity(s)
      [] name = "getDensityError" -> ReadDensity(s)
      [] name = "getClusterAssignment" -> ReadLabels(s)

C13_CacheAgreesWithHeldStructure ==
    (op.name \in GetterOps \ {"getBorders"} /\ ~Failed)
      => ret.val = ReadBy(op.name, self)

(* C14: the stage flags form a chain (clustering => density => id => ngbh),  *)
(* no step resets a flag that is true, k is set whenever the ngbh flag is    *)
(* true and id is set whenever the id flag is true.                          *)
FlagChain ==
    /\ self.state.clustering => self.state.density
    /\ self.state.density => self.state.id
    /\ self.state.id => self.state.ngbh
    /\ self.state.ngbh => ~IsNone(self.k)
    /\ self.state.id => ~IsNone(self.id)

FlagsKept ==
    \A f \in {"ngbh", "id", "density", "clustering"} : self.state[f] => self'.state[f]

C14_FlagsChainedAndMonotone == []FlagChain /\ [][FlagsKept]_vars

C14_Witness ==
    /\ op.name = "computeNeighbors"
    /\ self.state.clustering /\ self.state.density /\ self.state.id /\ self.state.ngbh
    /\ Len(pts) = 2

(* C15: a successful computeIDtwoNN, computeDensity or computeClusteringADP  *)
(* neither replaces the held point structure nor changes k; computeDensity   *)
(* and computeClusteringADP do not change id (nor does clustering change the *)
(* density fields of a structure); a getter changes nothing but its own      *)
(* cache slot.                                                               *)
SlotOf(name) ==
    CASE name = "getNeighbors" -> "neighbors"
      [] name = "getDensity" -> "density"
      [] name = "getDensityError" -> "densityError"
      [] name = "getClusterAssignment" -> "clusterAssignment"
      [] name = "getBorders" -> "borders"

LaterStages == {"computeIDtwoNN", "computeDensity", "computeClusteringADP"}

C15_EarlierResultsUntouched ==
    [][ /\ (op'.name \in LaterStages /\ ret'.kind = "ok")
             => /\ self'.datapoints = self.datapoints
                /\ self'.k = self.k
                /\ Len(pts') = Len(pts)
        /\ (op'.name \in {"computeDensity", "computeClusteringADP"} /\ ret'.kind = "ok")
             => self'.id = self.id
        /\ (op'.name = "computeClusteringADP" /\ ret'.kind = "ok")
             => \A h \in 1..Len(pts) : pts'[h].rho = pts[h].rho
        /\ op'.name \in GetterOps
             => /\ [self' EXCEPT ![SlotOf(op'.name)] = self[SlotOf(op'.name)]] = self
                /\ pts' = pts /\ cls' = cls ]_vars

C15_Witness ==
    /\ op.name = "getDensityError"
    /\ ~Failed
    /\ ~IsNone(self.densityError)
    /\ IsNone(self.density)
    /\ self.state.clustering
====
